---------------------------- MODULE Spec2Model ----------------------------
(***************************************************************************)
(* A model of the WIFI-UAV control-frame decoder, wireshark/pcap_decode.py: *)
(* frame validation and field extraction (parse_rc_frame), the per-frame    *)
(* classification into labels (infer_event) and the debounce-and-count      *)
(* loop (debounce_and_count).                                               *)
(*                                                                          *)
(* Conventions.                                                             *)
(*  - A Python bytes object is a sequence of integers 0..255; Python index  *)
(*    i (0-based, negative from the end) is read through Index.             *)
(*  - A Python str is a sequence of one-character strings, so that          *)
(*    formatting (f"{x:02x}") builds real characters.                       *)
(*  - Optional[RCFrame] is a record with a "kind" field: "RCFrame" or       *)
(*    "None"; an uncaught IndexError is the kind "IndexError".              *)
(*  - Optional[str] (classify_axis) is a str, None being the empty          *)
(*    sequence: its only consumer is the truth test `if e`, which treats    *)
(*    None and "" alike.                                                    *)
(*  - Timestamps and the debounce window are integers in ticks of 0.1 s.    *)
(*  - SpecDecode runs parse_rc_frame and infer_event on one payload;        *)
(*    SpecDebounce runs debounce_and_count on one event stream; SpecMain    *)
(*    runs main over one capture and SpecReport its label lines over one    *)
(*    count table.                                                          *)
(*  - SpecApi, SpecTeleop and SpecPath run DroneTeleopAPI (teleop_api.py),  *)
(*    TeleopSession (teleop.py) and PathCommandSender.follow_path           *)
(*    (draw-path.py). The drone is what its setters were last given.        *)
(***************************************************************************)
EXTENDS Integers, Sequences, FiniteSets, TLC

VARIABLES
    pc,                \* position of the program being run
    ts,                \* parse_rc_frame: the capture timestamp
    payload,           \* parse_rc_frame: the UDP payload
    frame,             \* what parse_rc_frame returned
    deadband,          \* infer_event: the deadband argument
    events,            \* what infer_event returned
    debounce_s,        \* debounce_and_count: the window argument
    events_over_time,  \* debounce_and_count: the events consumed so far
    counted,           \* per consumed event: did the loop take the counting branch
    counts,            \* debounce_and_count: counts dict; main: counts
    last_seen,         \* debounce_and_count: last_seen dict
    args,              \* main: the parsed command line
    pulled,            \* main: the (ts, payload) pairs taken from extract_udp_payloads
    frames,            \* main: frames
    decoded,           \* main: decoded
    event_stream,      \* main: event_stream
    out,               \* main: the lines printed
    exit_code,         \* main: the value returned, -1 while it runs
    drone,             \* Drone: the value last given to each setter
    sent,              \* the calls made on the drone by the last step
    api_call,          \* DroneTeleopAPI: the last call of move
    movement_pressed,  \* TeleopSession._movement_pressed
    movement_vector,   \* TeleopSession._movement_vector
    running,           \* TeleopSession._running.is_set()
    key_event,         \* TeleopSession: the last key event handled
    applied,           \* TeleopSession: _apply_movement has run
    sender,            \* PathCommandSender: what it sends to
    point_list,        \* follow_path: point_list
    base_command,      \* follow_path: base_command
    commands,          \* follow_path: commands
    delivered,         \* the commands _send handed to the drone or the callback
    send_step,         \* _send: how many of its three setters have run, 0 outside it
    pending,           \* _send: the command being sent
    message            \* _drone_loop: the axes of the message last built and sent

mainVars == <<args, pulled, frames, decoded, event_stream, out, exit_code>>

droneVars == <<drone, sent>>

teleopVars == <<movement_pressed, movement_vector, running, key_event, applied>>

pathVars == <<sender, point_list, base_command, commands, delivered>>

threadVars == <<send_step, pending, message>>

(* the state of the three programs of src/ that steer the drone *)
controlVars == <<droneVars, api_call, teleopVars, pathVars, threadVars>>

vars ==
    <<pc, ts, payload, frame, deadband, events,
      debounce_s, events_over_time, counted, counts, last_seen, mainVars,
      controlVars>>

decodeVars == <<ts, payload, frame, deadband, events>>

debounceVars == <<debounce_s, events_over_time, counted, counts, last_seen>>

(* what the actions of one program leave alone *)
exceptDecode == <<debounceVars, mainVars, controlVars>>

exceptDebounce == <<decodeVars, mainVars, controlVars>>

exceptMain ==
    <<decodeVars, debounce_s, events_over_time, counted, last_seen, controlVars>>

pcapVars ==
    <<decodeVars, debounceVars, mainVars>>

exceptApi == <<pcapVars, teleopVars, pathVars, threadVars>>

exceptTeleop == <<pcapVars, api_call, pathVars, threadVars>>

exceptPath == <<pcapVars, api_call, teleopVars, threadVars>>

exceptThreads == <<pcapVars, api_call, teleopVars>>

----------------------------------------------------------------------------
(* Program constants *)

NEUTRAL == 128

DEFAULT_DEADBAND == 12

DEFAULT_DEBOUNCE == 6

FRAME_LEN == 20

START_MARKER == 102

END_MARKER == 153

BYTE_MAX == 255

NEUTRAL_VALUE == 127

MAX_SPEED == 123

SPEED_MULTIPLIER == 48

(* Bounds of the model *)

MaxLen == 21

MaxTs == 7

MaxEvents == 4

MaxBack == 1

MaxPayloads == 3

MaxCount == 12

MaxPoints == 3

----------------------------------------------------------------------------
(* Strings *)

HexChars == <<"0","1","2","3","4","5","6","7","8","9","a","b","c","d","e","f">>

RECURSIVE HexDigits(_)
HexDigits(n) ==
    IF n < 16 THEN <<HexChars[n + 1]>>
    ELSE HexDigits(n \div 16) \o <<HexChars[(n % 16) + 1]>>

RECURSIVE ZeroPad(_, _)
ZeroPad(s, width) ==
    IF Len(s) >= width THEN s ELSE ZeroPad(<<"0">> \o s, width)

(* a plausible slip: "x" for "02x" (no zero padding) *)
Fmt02x_NoPad(n) == HexDigits(n)

(* format(n, "02x") for n >= 0 *)
Fmt02x(n) == ZeroPad(HexDigits(n), 2)

S_none == <<"n","o","n","e">>

S_takeoff == <<"t","a","k","e","o","f","f">>

S_emergency_stop == <<"e","m","e","r","g","e","n","c","y","_","s","t","o","p">>

S_land == <<"l","a","n","d">>

S_calibrate_gyro == <<"c","a","l","i","b","r","a","t","e","_","g","y","r","o">>

S_forward == <<"f","o","r","w","a","r","d">>

S_back == <<"b","a","c","k">>

S_right == <<"r","i","g","h","t">>

S_left == <<"l","e","f","t">>

S_up == <<"u","p">>

S_down == <<"d","o","w","n">>

S_yaw_right == <<"y","a","w","_","r","i","g","h","t">>

S_yaw_left == <<"y","a","w","_","l","e","f","t">>

S_headless_on == <<"h","e","a","d","l","e","s","s","_","o","n">>

S_headless_off == <<"h","e","a","d","l","e","s","s","_","o","f","f">>

S_cmd_0x == <<"c","m","d","_","0","x">>

S_headless_0x == <<"h","e","a","d","l","e","s","s","_","0","x">>

COMMANDS ==
    (0 :> S_none) @@ (1 :> S_takeoff) @@ (2 :> S_emergency_stop)
    @@ (3 :> S_land) @@ (4 :> S_calibrate_gyro)

----------------------------------------------------------------------------
(* FrameDecoder *)

None == [kind |-> "None"]

IndexError == [kind |-> "IndexError"]

(* payload[i]: the byte, or -1 where Python raises IndexError *)
Index(p, i) ==
    LET j == IF i < 0 THEN Len(p) + i ELSE i
    IN  IF j >= 0 /\ j < Len(p) THEN p[j + 1] ELSE -1

RECURSIVE Xor(_, _)
Xor(a, b) ==
    IF a = 0 THEN b
    ELSE IF b = 0 THEN a
    ELSE ((a + b) % 2) + 2 * Xor(a \div 2, b \div 2)

(* a plausible slip: the end marker is not looked at *)
is_candidate_rc_frame_NoEnd(p) ==
    IF Len(p) # FRAME_LEN THEN "False"
    ELSE IF Index(p, 0) = -1 THEN "IndexError"
    ELSE IF Index(p, 0) = START_MARKER THEN "True" ELSE "False"

(* a plausible change: the checksum of the docstring (XOR of bytes 2..7) is enforced *)
is_candidate_rc_frame_Checksum(p) ==
    IF Len(p) # FRAME_LEN THEN "False"
    ELSE IF Index(p, 0) # START_MARKER THEN "False"
    ELSE IF Index(p, -1) # END_MARKER THEN "False"
    ELSE IF Index(p, 18) =
            Xor(Xor(Xor(Index(p, 2), Index(p, 3)), Xor(Index(p, 4), Index(p, 5))),
                Xor(Index(p, 6), Index(p, 7)))
         THEN "True" ELSE "False"

(* len(payload) == 20 and payload[0] == 0x66 and payload[-1] == 0x99, the  *)
(* operands evaluated left to right and only as far as needed              *)
is_candidate_rc_frame(p) ==
    IF Len(p) # FRAME_LEN THEN "False"
    ELSE IF Index(p, 0) = -1 THEN "IndexError"
    ELSE IF Index(p, 0) # START_MARKER THEN "False"
    ELSE IF Index(p, -1) = -1 THEN "IndexError"
    ELSE IF Index(p, -1) = END_MARKER THEN "True" ELSE "False"

RCFrame(t, roll, pitch, throttle, yaw, cmd, headless, raw) ==
    [kind |-> "RCFrame", ts |-> t, roll |-> roll, pitch |-> pitch,
     throttle |-> throttle, yaw |-> yaw, cmd |-> cmd, headless |-> headless,
     raw |-> raw]

(* a plausible slip: roll and pitch read from each other's offset *)
parse_rc_frame_Swapped(t, p) ==
    IF is_candidate_rc_frame(p) = "IndexError" THEN IndexError
    ELSE IF is_candidate_rc_frame(p) = "False" THEN None
    ELSE RCFrame(t, Index(p, 3), Index(p, 2), Index(p, 4), Index(p, 5),
                 Index(p, 6), Index(p, 7), p)

(* a plausible slip: raw keeps only the decoded bytes payload[2:8] *)
parse_rc_frame_ShortRaw(t, p) ==
    IF is_candidate_rc_frame(p) = "IndexError" THEN IndexError
    ELSE IF is_candidate_rc_frame(p) = "False" THEN None
    ELSE RCFrame(t, Index(p, 2), Index(p, 3), Index(p, 4), Index(p, 5),
                 Index(p, 6), Index(p, 7), SubSeq(p, 3, 8))

parse_rc_frame(t, p) ==
    IF is_candidate_rc_frame(p) = "IndexError" THEN IndexError
    ELSE IF is_candidate_rc_frame(p) = "False" THEN None
    ELSE IF \E i \in 2..7 : Index(p, i) = -1 THEN IndexError
    ELSE RCFrame(t, Index(p, 2), Index(p, 3), Index(p, 4), Index(p, 5),
                 Index(p, 6), Index(p, 7), p)

----------------------------------------------------------------------------
(* EventClassifier *)

(* a plausible slip: < for <=, so the boundary |delta| == deadband emits *)
classify_axis_Strict(value, neutral, db, pos_label, neg_label) ==
    LET delta == value - neutral
        abs == IF delta < 0 THEN -delta ELSE delta
    IN  IF abs < db THEN <<>>
        ELSE IF delta > 0 THEN pos_label ELSE neg_label

classify_axis(value, neutral, db, pos_label, neg_label) ==
    LET delta == value - neutral
        abs == IF delta < 0 THEN -delta ELSE delta
    IN  IF abs <= db THEN <<>>
        ELSE IF delta > 0 THEN pos_label ELSE neg_label

(* a plausible slip: the dict is used whenever it has the key, "none" included *)
CommandEvents_DictOnly(f) ==
    IF f.cmd \in DOMAIN COMMANDS THEN <<COMMANDS[f.cmd]>>
    ELSE IF f.cmd # 0 THEN <<S_cmd_0x \o Fmt02x(f.cmd)>>
    ELSE <<>>

(* the command byte: what lines 104-107 append to events *)
CommandEvents(f) ==
    IF f.cmd \in DOMAIN COMMANDS /\ COMMANDS[f.cmd] # S_none
    THEN <<COMMANDS[f.cmd]>>
    ELSE IF f.cmd # 0 THEN <<S_cmd_0x \o Fmt02x(f.cmd)>>
    ELSE <<>>

Truthy(e) == Len(e) > 0

(* a plausible slip: the axes taken in wire order (roll first) *)
AxisEvents_WireOrder(f, db) ==
    LET pitch_evt == classify_axis(f.pitch, NEUTRAL, db, S_forward, S_back)
        roll_evt == classify_axis(f.roll, NEUTRAL, db, S_right, S_left)
        thr_evt == classify_axis(f.throttle, NEUTRAL, db, S_up, S_down)
        yaw_evt == classify_axis(f.yaw, NEUTRAL, db, S_yaw_right, S_yaw_left)
    IN  SelectSeq(<<roll_evt, pitch_evt, thr_evt, yaw_evt>>, Truthy)

(* a plausible slip: yaw classified with the labels of roll *)
AxisEvents_YawAsRoll(f, db) ==
    LET pitch_evt == classify_axis(f.pitch, NEUTRAL, db, S_forward, S_back)
        roll_evt == classify_axis(f.roll, NEUTRAL, db, S_right, S_left)
        thr_evt == classify_axis(f.throttle, NEUTRAL, db, S_up, S_down)
        yaw_evt == classify_axis(f.yaw, NEUTRAL, db, S_right, S_left)
    IN  SelectSeq(<<pitch_evt, roll_evt, thr_evt, yaw_evt>>, Truthy)

(* the four axes: what lines 111-118 append to events *)
AxisEvents(f, db) ==
    LET pitch_evt == classify_axis(f.pitch, NEUTRAL, db, S_forward, S_back)
        roll_evt == classify_axis(f.roll, NEUTRAL, db, S_right, S_left)
        thr_evt == classify_axis(f.throttle, NEUTRAL, db, S_up, S_down)
        yaw_evt == classify_axis(f.yaw, NEUTRAL, db, S_yaw_right, S_yaw_left)
    IN  SelectSeq(<<pitch_evt, roll_evt, thr_evt, yaw_evt>>, Truthy)

(* a plausible slip: 0x00 left out of the tuple, so it takes the generic branch *)
HeadlessEvents_ZeroGeneric(f) ==
    IF f.headless \notin {2, 3} THEN <<S_headless_0x \o Fmt02x(f.headless)>>
    ELSE IF f.headless = 3 THEN <<S_headless_on>>
    ELSE IF f.headless = 2 THEN <<S_headless_off>>
    ELSE <<>>

(* a plausible slip: the two named labels exchanged *)
HeadlessEvents_OnOffSwapped(f) ==
    IF f.headless \notin {0, 2, 3} THEN <<S_headless_0x \o Fmt02x(f.headless)>>
    ELSE IF f.headless = 3 THEN <<S_headless_off>>
    ELSE IF f.headless = 2 THEN <<S_headless_on>>
    ELSE <<>>

(* the headless byte: what lines 121-126 append to events *)
HeadlessEvents(f) ==
    IF f.headless \notin {0, 2, 3} THEN <<S_headless_0x \o Fmt02x(f.headless)>>
    ELSE IF f.headless = 3 THEN <<S_headless_on>>
    ELSE IF f.headless = 2 THEN <<S_headless_off>>
    ELSE <<>>

infer_event(f, db) == CommandEvents(f) \o AxisEvents(f, db) \o HeadlessEvents(f)

----------------------------------------------------------------------------
(* Inputs of the decoder and the classifier *)

Bytes == 0..BYTE_MAX

Frame20(start, b1, roll, pitch, throttle, yaw, cmd, headless, fill, chk, end) ==
    <<start, b1, roll, pitch, throttle, yaw, cmd, headless>>
    \o [i \in 1..10 |-> fill] \o <<chk, end>>

(* a well-framed payload *)
Valid(roll, pitch, throttle, yaw, cmd, headless, chk) ==
    Frame20(START_MARKER, 0, roll, pitch, throttle, yaw, cmd, headless, 0, chk,
            END_MARKER)

(* payloads of every other length, with and without the markers at the ends *)
WrongLengthPayloads ==
    { [i \in 1..n |-> IF i = 1 THEN s ELSE IF i = n THEN e ELSE NEUTRAL] :
        n \in (0..MaxLen) \ {FRAME_LEN},
        s \in {START_MARKER, END_MARKER, 0},
        e \in {END_MARKER, 0} }

(* 20-byte payloads with every combination of right and wrong markers *)
MarkerPayloads ==
    { Frame20(s, b1, NEUTRAL, NEUTRAL, NEUTRAL, NEUTRAL, cmd, 2, fill, 0, e) :
        s \in {START_MARKER, START_MARKER + 1, END_MARKER, 0},
        e \in {END_MARKER, END_MARKER - 1, START_MARKER, 0},
        b1 \in {0, START_MARKER}, cmd \in {0, 1}, fill \in {0, END_MARKER} }

(* one field sweeps the whole byte range, the others rest *)
SweepPayloads ==
    { Valid(v, NEUTRAL, NEUTRAL, NEUTRAL, 0, h, 0) : v \in Bytes, h \in {0, 2} }
    \cup { Valid(NEUTRAL, v, NEUTRAL, NEUTRAL, 0, h, 0) : v \in Bytes, h \in {0, 2} }
    \cup { Valid(NEUTRAL, NEUTRAL, v, NEUTRAL, 0, h, 0) : v \in Bytes, h \in {0, 2} }
    \cup { Valid(NEUTRAL, NEUTRAL, NEUTRAL, v, 0, h, 0) : v \in Bytes, h \in {0, 2} }
    \cup { Valid(NEUTRAL, a, NEUTRAL, NEUTRAL, v, h, 0) :
             v \in Bytes, a \in {NEUTRAL, 200}, h \in {0, 3} }
    \cup { Valid(NEUTRAL, NEUTRAL, NEUTRAL, a, c, v, 0) :
             v \in Bytes, a \in {NEUTRAL, 0}, c \in {0, 1} }

(* below, at and above neutral; with the deadband 40 the upper one is on the edge *)
AxisSamples == {NEUTRAL - 41, NEUTRAL, NEUTRAL + 40}

(* every subset of the fields fires together *)
MixedPayloads ==
    { Valid(r, p, t, y, c, h, k) :
        r \in AxisSamples, p \in AxisSamples, t \in AxisSamples, y \in AxisSamples,
        c \in {0, 3, 5, 171}, h \in {0, 2, 3, 16}, k \in {0, 255} }

(* the sample payload of the protocol notes, with a right and a wrong checksum *)
SamplePayloads ==
    { Valid(NEUTRAL, NEUTRAL, NEUTRAL, NEUTRAL, 1, 2, k) : k \in {0, 3, 255} }

(* six different field bytes, so that no field can stand in for another *)
DistinctFieldPayloads ==
    { Valid(r, r + 1, r + 2, r + 3, r + 4, r + 5, 0) : r \in {0, 100, 250} }

Payloads ==
    WrongLengthPayloads \cup MarkerPayloads \cup SweepPayloads
    \cup MixedPayloads \cup SamplePayloads \cup DistinctFieldPayloads

Timestamps == {0, MaxTs}

Deadbands == {-1, 0, 1, DEFAULT_DEADBAND, 40, 127, 128}

(* the variables of the other programs, at rest *)
DebounceIdle ==
    /\ debounce_s = DEFAULT_DEBOUNCE
    /\ events_over_time = <<>>
    /\ counted = <<>>
    /\ last_seen = <<>>

MainIdle ==
    /\ args = [max |-> 0, deadband |-> DEFAULT_DEADBAND,
               debounce |-> DEFAULT_DEBOUNCE, show_first |-> 0]
    /\ pulled = <<>>
    /\ frames = <<>>
    /\ decoded = 0
    /\ event_stream = <<>>
    /\ out = <<>>
    /\ exit_code = -1

(* RCCommand(pitch, roll, throttle), the defaults being 127 *)
RCCommand(pitch, roll, throttle) == [pitch |-> pitch, roll |-> roll, throttle |-> throttle]

(* the axis values of a drone nothing has steered yet *)
DroneAt(v) == [pitch |-> v, roll |-> v, throttle |-> v, yaw |-> v]

NoMessage == [kind |-> "none"]

NoKey == [event |-> "none", kind |-> "none", char |-> ""]

NoCall == [direction |-> "", duration |-> 0, speed |-> 0, outcome |-> "none", moved |-> FALSE]

ControlIdle ==
    /\ drone = DroneAt(NEUTRAL_VALUE)
    /\ sent = <<>>
    /\ api_call = NoCall
    /\ movement_pressed = {}
    /\ movement_vector = <<0, 0, 0>>
    /\ running = FALSE
    /\ key_event = NoKey
    /\ applied = FALSE
    /\ sender = "none"
    /\ point_list = <<>>
    /\ base_command = RCCommand(NEUTRAL_VALUE, NEUTRAL_VALUE, NEUTRAL_VALUE)
    /\ commands = <<>>
    /\ delivered = <<>>
    /\ send_step = 0
    /\ pending = RCCommand(NEUTRAL_VALUE, NEUTRAL_VALUE, NEUTRAL_VALUE)
    /\ message = NoMessage

DecodeIdle ==
    /\ ts = 0
    /\ payload = <<>>
    /\ frame = None
    /\ deadband = DEFAULT_DEADBAND
    /\ events = <<>>

InitDecode ==
    /\ pc = "parse"
    /\ ts \in Timestamps
    /\ payload \in Payloads
    /\ frame = None
    /\ deadband = DEFAULT_DEADBAND
    /\ events = <<>>
    /\ DebounceIdle
    /\ counts = <<>>
    /\ MainIdle
    /\ ControlIdle

(* f = parse_rc_frame(ts, payload) *)
ParseRcFrame ==
    /\ pc = "parse"
    /\ frame' = parse_rc_frame(ts, payload)
    /\ pc' = IF frame'.kind = "RCFrame" THEN "parsed"
             ELSE IF frame'.kind = "None" THEN "skipped" ELSE "raised"
    /\ UNCHANGED <<ts, payload, deadband, events>>
    /\ UNCHANGED exceptDecode

(* labels = infer_event(f, args.deadband) *)
InferEvent ==
    /\ pc = "parsed"
    /\ \E db \in Deadbands :
         /\ deadband' = db
         /\ events' = infer_event(frame, db)
    /\ pc' = "inferred"
    /\ UNCHANGED <<ts, payload, frame>>
    /\ UNCHANGED exceptDecode

NextDecode == ParseRcFrame \/ InferEvent

SpecDecode == InitDecode /\ [][NextDecode]_vars

----------------------------------------------------------------------------
(* EventDebouncer *)

(* d.get(k): None or the value *)
DictGet(d, k) == IF k \in DOMAIN d THEN [kind |-> "value", v |-> d[k]] ELSE None

(* d.get(k, default) *)
DictGetOr(d, k, default) == IF k \in DOMAIN d THEN d[k] ELSE default

(* d[k] = v *)
DictSet(d, k, v) == [x \in DOMAIN d \cup {k} |-> IF x = k THEN v ELSE d[x]]

EmptyDict == <<>>

(* a plausible slip: > for >=, so a gap equal to the window is dropped *)
ShouldCount_Strict(prev, t, window) == prev.kind = "None" \/ (t - prev.v) > window

(* prev is None or (ts - prev) >= debounce_s *)
ShouldCount(prev, t, window) == prev.kind = "None" \/ (t - prev.v) >= window

DebounceLabels == {S_takeoff, S_land}

Windows == {-1, 3, DEFAULT_DEBOUNCE}

(* the timestamp of the last event consumed *)
LastTs == IF events_over_time = <<>> THEN 0 ELSE events_over_time[Len(events_over_time)][1]

InitDebounce ==
    /\ pc = "loop"
    /\ debounce_s \in Windows
    /\ events_over_time = <<>>
    /\ counted = <<>>
    /\ counts = EmptyDict
    /\ last_seen = EmptyDict
    /\ DecodeIdle
    /\ MainIdle
    /\ ControlIdle

(* a plausible slip: the timer restarts on every event, counted or dropped *)
LoopBody_Sliding(st, t, label, window) ==
    LET prev == DictGet(st.last_seen, label)
    IN  IF ShouldCount(prev, t, window)
        THEN [counts |-> DictSet(st.counts, label, DictGetOr(st.counts, label, 0) + 1),
              last_seen |-> DictSet(st.last_seen, label, t),
              took |-> TRUE]
        ELSE [counts |-> st.counts,
              last_seen |-> DictSet(st.last_seen, label, t),
              took |-> FALSE]

(* a plausible slip: the timer is stamped before it is read, so an event is *)
(* compared with itself                                                    *)
LoopBody_StampFirst(st, t, label, window) ==
    LET stamped == DictSet(st.last_seen, label, t)
        prev    == DictGet(stamped, label)
    IN  IF ShouldCount(prev, t, window)
        THEN [counts |-> DictSet(st.counts, label, DictGetOr(st.counts, label, 0) + 1),
              last_seen |-> stamped,
              took |-> TRUE]
        ELSE [counts |-> st.counts, last_seen |-> stamped, took |-> FALSE]

(* a plausible slip: one timer for all labels (last_seen keyed by a constant) *)
LoopBody_SharedTimer(st, t, label, window) ==
    LET prev == DictGet(st.last_seen, S_none)
    IN  IF ShouldCount(prev, t, window)
        THEN [counts |-> DictSet(st.counts, label, DictGetOr(st.counts, label, 0) + 1),
              last_seen |-> DictSet(st.last_seen, S_none, t),
              took |-> TRUE]
        ELSE [counts |-> st.counts, last_seen |-> st.last_seen, took |-> FALSE]

(* the body of `for ts, label in events_over_time`, from the dicts before to *)
(* the dicts after; took tells which branch ran                              *)
LoopBody(st, t, label, window) ==
    LET prev == DictGet(st.last_seen, label)
    IN  IF ShouldCount(prev, t, window)
        THEN [counts |-> DictSet(st.counts, label, DictGetOr(st.counts, label, 0) + 1),
              last_seen |-> DictSet(st.last_seen, label, t),
              took |-> TRUE]
        ELSE [counts |-> st.counts, last_seen |-> st.last_seen, took |-> FALSE]

RECURSIVE DebounceLoop(_, _, _)
DebounceLoop(st, evs, window) ==
    IF evs = <<>> THEN st
    ELSE DebounceLoop(LoopBody(st, evs[1][1], evs[1][2], window), Tail(evs), window)

(* debounce_and_count(events_over_time, debounce_s) as a function: the counts *)
(* it returns                                                                *)
debounce_and_count(evs, window) ==
    DebounceLoop([counts |-> EmptyDict, last_seen |-> EmptyDict, took |-> FALSE],
                 evs, window).counts

(* one iteration of `for ts, label in events_over_time` *)
DebounceIteration(t, label) ==
    LET after == LoopBody([counts |-> counts, last_seen |-> last_seen, took |-> FALSE],
                          t, label, debounce_s)
    IN  /\ events_over_time' = Append(events_over_time, <<t, label>>)
        /\ counts' = after.counts
        /\ last_seen' = after.last_seen
        /\ counted' = Append(counted, after.took)

(* the timestamps the next event of the stream may carry: capture order is  *)
(* time-ascending up to packets stamped at most MaxBack ticks early          *)
NextTimestamps == { t \in 0..MaxTs : t >= LastTs - MaxBack }

(* the loop takes the next event of the stream *)
DebounceStep ==
    /\ pc = "loop"
    /\ Len(events_over_time) < MaxEvents
    /\ \E t \in NextTimestamps : \E label \in DebounceLabels :
           DebounceIteration(t, label)
    /\ UNCHANGED <<pc, debounce_s>>
    /\ UNCHANGED exceptDebounce

(* the stream is exhausted: return counts *)
DebounceReturn ==
    /\ pc = "loop"
    /\ pc' = "returned"
    /\ UNCHANGED debounceVars
    /\ UNCHANGED exceptDebounce

NextDebounce == DebounceStep \/ DebounceReturn

SpecDebounce == InitDebounce /\ [][NextDebounce]_vars

----------------------------------------------------------------------------
(* main of pcap_decode.py: decode loop, event stream, debounce, report *)

Digits == <<"0","1","2","3","4","5","6","7","8","9">>

LowerLetters ==
    <<"a","b","c","d","e","f","g","h","i","j","k","l","m",
      "n","o","p","q","r","s","t","u","v","w","x","y","z">>

(* ord(c) for the characters labels and report lines are made of *)
Ord(c) ==
    IF c = " " THEN 32
    ELSE IF c = "_" THEN 95
    ELSE IF \E i \in 1..Len(Digits) : Digits[i] = c
         THEN 47 + (CHOOSE i \in 1..Len(Digits) : Digits[i] = c)
         ELSE 96 + (CHOOSE i \in 1..Len(LowerLetters) : LowerLetters[i] = c)

(* a < b for two str: by code point, a proper prefix first *)
RECURSIVE StrLess(_, _)
StrLess(a, b) ==
    IF b = <<>> THEN FALSE
    ELSE IF a = <<>> THEN TRUE
    ELSE IF Ord(a[1]) # Ord(b[1]) THEN Ord(a[1]) < Ord(b[1])
    ELSE StrLess(Tail(a), Tail(b))

(* a plausible slip: the keys are left in no particular order (here: the *)
(* longest first), as iterating a set would                               *)
RECURSIVE sorted_Unsorted(_)
sorted_Unsorted(S) ==
    IF S = {} THEN <<>>
    ELSE LET m == CHOOSE x \in S : \A y \in S : Len(y) < Len(x) \/ (Len(y) = Len(x) /\ ~StrLess(y, x))
         IN  <<m>> \o sorted_Unsorted(S \ {m})

(* sorted(keys) of a finite set of str *)
RECURSIVE sorted(_)
sorted(S) ==
    IF S = {} THEN <<>>
    ELSE LET m == CHOOSE x \in S : \A y \in S : ~StrLess(y, x)
         IN  <<m>> \o sorted(S \ {m})

(* str(n) for n >= 0 *)
RECURSIVE DecDigits(_)
DecDigits(n) ==
    IF n < 10 THEN <<Digits[n + 1]>>
    ELSE DecDigits(n \div 10) \o <<Digits[(n % 10) + 1]>>

(* f"{s:16s}": s left-justified, padded with spaces, never cut *)
RECURSIVE LJust(_, _)
LJust(s, width) == IF Len(s) >= width THEN s ELSE LJust(s \o <<" ">>, width)

LABEL_WIDTH == 16

(* print(f"{k:16s} x{counts[k]}") *)
CountLine(k, c) ==
    [kind |-> "count", chars |-> LJust(k, LABEL_WIDTH) \o <<" ", "x">> \o DecDigits(c[k])]

preferred_order ==
    <<S_takeoff, S_land, S_emergency_stop, S_calibrate_gyro,
      S_forward, S_back, S_left, S_right, S_up, S_down, S_yaw_left, S_yaw_right,
      S_headless_on, S_headless_off>>

(* a plausible slip: every preferred label is printed, 0 when absent *)
PreferredLines_ZeroCounts(c) ==
    [i \in 1..Len(preferred_order) |->
        IF preferred_order[i] \in DOMAIN c
        THEN CountLine(preferred_order[i], c)
        ELSE CountLine(preferred_order[i], [k \in {preferred_order[i]} |-> 0])]

(* for k in preferred_order: if k in counts: print(...) *)
PreferredLines(c) ==
    LET present == SelectSeq(preferred_order, LAMBDA k : k \in DOMAIN c)
    IN  [i \in 1..Len(present) |-> CountLine(present[i], c)]

(* the labels the first loop adds to printed *)
Printed(c) == { preferred_order[i] : i \in 1..Len(preferred_order) } \cap DOMAIN c

(* for k in sorted(counts.keys()): if k not in printed: print(...) *)
RemainingLines(c) ==
    LET rest == SelectSeq(sorted(DOMAIN c), LAMBDA k : k \notin Printed(c))
    IN  [i \in 1..Len(rest) |-> CountLine(rest[i], c)]

(* the label lines of the report, in the order printed *)
ReportLines(c) == PreferredLines(c) \o RemainingLines(c)

TextLine(s) == [kind |-> "text", text |-> s]

BlankLine == [kind |-> "blank"]

(* the four lines printed when no frame decoded *)
NoFramesLines ==
    <<TextLine("No RC frames found."),
      TextLine("Tips:"),
      TextLine("- Confirm capture contains IP/UDP packets (recommend capturing with: tshark -I -i wlan0mon ... -w session.pcap)"),
      TextLine("- Try changing --port if your drone uses a different port")>>

Min(a, b) == IF a < b THEN a ELSE b

(* frames[:n] of Python: n < 0 counts from the end *)
SliceTo(s, n) ==
    IF n >= 0 THEN SubSeq(s, 1, Min(n, Len(s)))
    ELSE SubSeq(s, 1, IF Len(s) + n > 0 THEN Len(s) + n ELSE 0)

(* the --show-first block: a heading, one line per frame shown, a blank line; *)
(* a frame line is kept as the frame it shows                                 *)
ShowFirstLines(fs, n) ==
    IF n = 0 THEN <<>>
    ELSE <<[kind |-> "first", n |-> Min(n, Len(fs))]>>
         \o [i \in 1..Len(SliceTo(fs, n)) |-> [kind |-> "frame", frame |-> fs[i]]]
         \o <<BlankLine>>

(* the summary header: decoded frames, port, deadband, debounce, blank line *)
SummaryLines(fs, a) ==
    <<[kind |-> "decoded_frames", n |-> Len(fs)],
      [kind |-> "udp_port"],
      [kind |-> "deadband", n |-> a.deadband, neutral |-> NEUTRAL, hex |-> Fmt02x(NEUTRAL)],
      [kind |-> "debounce", n |-> a.debounce],
      BlankLine>>

(* a plausible slip: only the first label of each frame enters the stream *)
RECURSIVE EventStream_FirstLabel(_, _)
EventStream_FirstLabel(fs, db) ==
    IF fs = <<>> THEN <<>>
    ELSE LET labels == infer_event(fs[1], db)
         IN  (IF labels = <<>> THEN <<>> ELSE <<<<fs[1].ts, labels[1]>>>>)
             \o EventStream_FirstLabel(Tail(fs), db)

(* for f in frames: for label in infer_event(f, deadband): append (f.ts, label) *)
RECURSIVE EventStream(_, _)
EventStream(fs, db) ==
    IF fs = <<>> THEN <<>>
    ELSE LET labels == infer_event(fs[1], db)
         IN  [i \in 1..Len(labels) |-> <<fs[1].ts, labels[i]>>]
             \o EventStream(Tail(fs), db)

(* the example frame: all axes neutral, takeoff, headless off *)
P_sample == Frame20(START_MARKER, 0, NEUTRAL, NEUTRAL, NEUTRAL, NEUTRAL, 1, 2, 0, 0, END_MARKER)

(* a frame that emits no label at either deadband *)
P_quiet == Valid(NEUTRAL, NEUTRAL + DEFAULT_DEADBAND, NEUTRAL, NEUTRAL, 0, 0, 0)

P_forward == Valid(NEUTRAL, NEUTRAL + 40, NEUTRAL, NEUTRAL, 0, 0, 0)

P_generic == Valid(NEUTRAL, NEUTRAL, NEUTRAL, NEUTRAL, 10, 16, 0)

(* a frame with a command, four deflected axes and headless on *)
P_busy == Valid(NEUTRAL + 41, NEUTRAL - 41, NEUTRAL + 41, NEUTRAL + 41, 2, 3, 0)

P_short == [i \in 1..(FRAME_LEN - 1) |-> IF i = 1 THEN START_MARKER ELSE NEUTRAL]

P_badend == Frame20(START_MARKER, 0, NEUTRAL, NEUTRAL, NEUTRAL, NEUTRAL, 1, 2, 0, 0, 0)

(* extract_udp_payloads yields non-empty payloads only *)
MainPayloads == {P_sample, P_quiet, P_forward, P_generic, P_busy, P_short, P_badend}

(* two capture times, closer than the default window and further apart than *)
(* the window 3                                                             *)
MainTimestamps == {0, DEFAULT_DEBOUNCE - 2}

MainArgs ==
    { [max |-> 0,  deadband |-> DEFAULT_DEADBAND, debounce |-> DEFAULT_DEBOUNCE, show_first |-> 0],
      [max |-> 1,  deadband |-> DEFAULT_DEADBAND, debounce |-> DEFAULT_DEBOUNCE, show_first |-> 1],
      [max |-> 2,  deadband |-> 40,               debounce |-> 3,                show_first |-> 0],
      [max |-> -1, deadband |-> DEFAULT_DEADBAND, debounce |-> 3,                show_first |-> -1],
      [max |-> 0,  deadband |-> DEFAULT_DEADBAND, debounce |-> 0,                show_first |-> 2] }

LastPulledTs == IF pulled = <<>> THEN 0 ELSE pulled[Len(pulled)][1]

InitMain ==
    /\ pc = "m_read"
    /\ args \in MainArgs
    /\ pulled = <<>>
    /\ frames = <<>>
    /\ decoded = 0
    /\ event_stream = <<>>
    /\ counts = EmptyDict
    /\ out = <<>>
    /\ exit_code = -1
    /\ DecodeIdle
    /\ DebounceIdle
    /\ ControlIdle

(* a plausible slip: > for >=, one frame too many *)
MaxReached_Strict(max, n) == max # 0 /\ n > max

(* args.max and decoded >= args.max *)
MaxReached(max, n) == max # 0 /\ n >= max

(* one iteration of `for ts, payload in extract_udp_payloads(...)`: the  *)
(* capture yields its next pair, in time order                           *)
MainReadPayload ==
    /\ pc = "m_read"
    /\ Len(pulled) < MaxPayloads
    /\ \E t \in MainTimestamps : \E p \in MainPayloads :
        /\ t >= LastPulledTs
        /\ pulled' = Append(pulled, <<t, p>>)
        /\ LET f == parse_rc_frame(t, p)
           IN  IF f.kind # "RCFrame"
               THEN /\ UNCHANGED <<frames, decoded>>
                    /\ pc' = "m_read"
               ELSE /\ frames' = Append(frames, f)
                    /\ decoded' = decoded + 1
                    /\ pc' = IF MaxReached(args.max, decoded + 1)
                             THEN "m_decoded" ELSE "m_read"
    /\ UNCHANGED <<args, event_stream, counts, out, exit_code>>
    /\ UNCHANGED exceptMain

(* the capture has no more packets *)
MainInputExhausted ==
    /\ pc = "m_read"
    /\ pc' = "m_decoded"
    /\ UNCHANGED <<mainVars, counts>>
    /\ UNCHANGED exceptMain

(* a plausible slip: a capture whose frames emit no event is taken for one *)
(* without frames                                                         *)
NoFrames_NoEvents == EventStream(frames, args.deadband) = <<>>

(* not frames *)
NoFrames == frames = <<>>

(* if not frames: print the tips, return 2 *)
MainNoFrames ==
    /\ pc = "m_decoded"
    /\ NoFrames
    /\ out' = out \o NoFramesLines
    /\ exit_code' = 2
    /\ pc' = "m_exit"
    /\ UNCHANGED <<args, pulled, frames, decoded, event_stream, counts>>
    /\ UNCHANGED exceptMain

(* the --show-first block and the event stream *)
MainClassify ==
    /\ pc = "m_decoded"
    /\ ~NoFrames
    /\ out' = out \o ShowFirstLines(frames, args.show_first)
    /\ event_stream' = EventStream(frames, args.deadband)
    /\ pc' = "m_classified"
    /\ UNCHANGED <<args, pulled, frames, decoded, counts, exit_code>>
    /\ UNCHANGED exceptMain

(* counts = debounce_and_count(event_stream, args.debounce) *)
MainDebounce ==
    /\ pc = "m_classified"
    /\ counts' = debounce_and_count(event_stream, args.debounce)
    /\ pc' = "m_debounced"
    /\ UNCHANGED mainVars
    /\ UNCHANGED exceptMain

(* the summary header, the label lines, return 0 *)
MainReport ==
    /\ pc = "m_debounced"
    /\ out' = out \o SummaryLines(frames, args) \o ReportLines(counts)
    /\ exit_code' = 0
    /\ pc' = "m_exit"
    /\ UNCHANGED <<args, pulled, frames, decoded, event_stream, counts>>
    /\ UNCHANGED exceptMain

NextMain ==
    \/ MainReadPayload
    \/ MainInputExhausted
    \/ MainNoFrames
    \/ MainClassify
    \/ MainDebounce
    \/ MainReport

SpecMain == InitMain /\ [][NextMain]_vars

----------------------------------------------------------------------------
(* The report ordering alone, over count tables main cannot all be driven to *)
(* with the small captures above                                             *)

ReportLabels ==
    {S_takeoff, S_land, S_forward, S_back, S_headless_off,
     S_cmd_0x \o Fmt02x(10), S_cmd_0x \o Fmt02x(16), S_headless_0x \o Fmt02x(10)}

CountValues == {1, MaxCount}

CountTables == UNION { [L -> CountValues] : L \in SUBSET ReportLabels }

InitReport ==
    /\ pc = "report"
    /\ counts \in CountTables
    /\ out = <<>>
    /\ args = [max |-> 0, deadband |-> DEFAULT_DEADBAND,
               debounce |-> DEFAULT_DEBOUNCE, show_first |-> 0]
    /\ pulled = <<>>
    /\ frames = <<>>
    /\ decoded = 0
    /\ event_stream = <<>>
    /\ exit_code = -1
    /\ DecodeIdle
    /\ DebounceIdle
    /\ ControlIdle

(* lines 231-240 applied to counts *)
PrintReport ==
    /\ pc = "report"
    /\ out' = ReportLines(counts)
    /\ pc' = "reported"
    /\ UNCHANGED <<args, pulled, frames, decoded, event_stream, counts, exit_code>>
    /\ UNCHANGED exceptMain

NextReport == PrintReport

SpecReport == InitReport /\ [][NextReport]_vars

----------------------------------------------------------------------------
(* DroneTeleopAPI of teleop_api.py *)

Max(a, b) == IF a > b THEN a ELSE b

(* a call of a setter or of a command of the drone *)
DroneCall(op, v) == [op |-> op, v |-> v]

(* set_pitch(p), set_roll(r), set_throttle(t), in that order *)
SetAxes(p, r, t) ==
    <<DroneCall("set_pitch", p), DroneCall("set_roll", r), DroneCall("set_throttle", t)>>

(* the drone after the calls cs: every setter keeps the value it was given *)
RECURSIVE AfterCalls(_, _)
AfterCalls(d, cs) ==
    IF cs = <<>> THEN d
    ELSE LET c == cs[1]
             n == IF c.op = "set_pitch" THEN [d EXCEPT !.pitch = c.v]
                  ELSE IF c.op = "set_roll" THEN [d EXCEPT !.roll = c.v]
                  ELSE IF c.op = "set_throttle" THEN [d EXCEPT !.throttle = c.v]
                  ELSE IF c.op = "set_yaw" THEN [d EXCEPT !.yaw = c.v]
                  ELSE d
         IN  AfterCalls(n, Tail(cs))

(* a plausible slip: the lower bound of the speed is forgotten *)
clamp_speed_NoLower(speed) == Min(MAX_SPEED, speed)

(* _clamp_speed *)
clamp_speed(speed) == Max(0, Min(MAX_SPEED, speed))

(* _clamp_output *)
clamp_output(value) == Max(0, Min(255, value))

(* _reset_movement *)
reset_movement == SetAxes(NEUTRAL_VALUE, NEUTRAL_VALUE, NEUTRAL_VALUE)

Directions == {"forward", "back", "left", "right", "up", "down"}

(* pitch, roll and throttle of move after the if chain; the else branch raises *)
MoveAxes(direction, scaled_speed) ==
    LET n == NEUTRAL_VALUE
    IN  IF direction = "forward" THEN RCCommand(n + scaled_speed, n, n)
        ELSE IF direction = "back" THEN RCCommand(n - scaled_speed, n, n)
        ELSE IF direction = "right" THEN RCCommand(n, n + scaled_speed, n)
        ELSE IF direction = "left" THEN RCCommand(n, n - scaled_speed, n)
        ELSE IF direction = "up" THEN RCCommand(n, n, n + scaled_speed)
        ELSE RCCommand(n, n, n - scaled_speed)

DirectionInputs == Directions \cup {"sideways"}

SpeedInputs == {-300, -1, 0, 1, SPEED_MULTIPLIER, MAX_SPEED, MAX_SPEED + 1, 300}

DurationInputs == {-1, 10}

(* Drone() is built by lib.drone; its axes start at one of the two neutral *)
(* values the repository uses                                              *)
DroneInitial == { DroneAt(v) : v \in {NEUTRAL_VALUE, NEUTRAL} }

PathIdle ==
    /\ sender = "none"
    /\ point_list = <<>>
    /\ base_command = RCCommand(NEUTRAL_VALUE, NEUTRAL_VALUE, NEUTRAL_VALUE)
    /\ commands = <<>>
    /\ delivered = <<>>
    /\ send_step = 0
    /\ pending = RCCommand(NEUTRAL_VALUE, NEUTRAL_VALUE, NEUTRAL_VALUE)
    /\ message = NoMessage

TeleopIdle ==
    /\ movement_pressed = {}
    /\ movement_vector = <<0, 0, 0>>
    /\ running = FALSE
    /\ key_event = NoKey
    /\ applied = FALSE

PcapIdle ==
    /\ DecodeIdle
    /\ DebounceIdle
    /\ counts = <<>>
    /\ MainIdle

InitApi ==
    /\ pc = "api_idle"
    /\ drone \in DroneInitial
    /\ sent = <<>>
    /\ api_call = NoCall
    /\ TeleopIdle
    /\ PathIdle
    /\ PcapIdle

(* move up to the sleep: lines 55-77 *)
ApiMoveCommand ==
    /\ pc = "api_idle"
    /\ \E direction \in DirectionInputs, duration \in DurationInputs, speed \in SpeedInputs :
        LET scaled_speed == clamp_speed(speed)
            axes == MoveAxes(direction, scaled_speed)
            call == [direction |-> direction, duration |-> duration, speed |-> speed,
                     outcome |-> "holding", moved |-> api_call.moved]
        IN  IF direction \notin Directions
            THEN /\ api_call' = [call EXCEPT !.outcome = "ValueError"]
                 /\ sent' = <<>>
                 /\ UNCHANGED <<pc, drone>>
            ELSE /\ api_call' = call
                 /\ sent' = SetAxes(clamp_output(axes.pitch), clamp_output(axes.roll),
                                    clamp_output(axes.throttle))
                 /\ drone' = AfterCalls(drone, sent')
                 /\ pc' = "api_holding"
    /\ UNCHANGED exceptApi

(* the sleep is over: _reset_movement, return *)
ApiMoveReset ==
    /\ pc = "api_holding"
    /\ sent' = reset_movement
    /\ drone' = AfterCalls(drone, sent')
    /\ api_call' = [api_call EXCEPT !.outcome = "returned", !.moved = TRUE]
    /\ pc' = "api_idle"
    /\ UNCHANGED exceptApi

(* shutdown: the sender thread is joined, the axes reset, the drone stopped *)
ApiShutdown ==
    /\ pc = "api_idle"
    /\ sent' = reset_movement \o <<DroneCall("stop", 0)>>
    /\ drone' = AfterCalls(drone, sent')
    /\ pc' = "api_stopped"
    /\ UNCHANGED api_call
    /\ UNCHANGED exceptApi

NextApi == ApiMoveCommand \/ ApiMoveReset \/ ApiShutdown

SpecApi == InitApi /\ [][NextApi]_vars

----------------------------------------------------------------------------
(* TeleopSession of teleop.py *)

MOVEMENT_KEYS == <<"w", "s", "a", "d", "i", "m">>

(* the character pynput reports for Ctrl+C, "\x03" *)
CTRL_C == "ETX"

(* a key with a character, and a special key, whose char is None *)
CharKey(c) == [kind |-> "char", char |-> c]

SpecialKey(name) == [kind |-> "special", char |-> name]

IsMovementKey(c) == \E i \in 1..Len(MOVEMENT_KEYS) : MOVEMENT_KEYS[i] = c

(* a plausible slip: the vector is not reset before the keys are added up *)
update_movement_vector_NoReset(vec, pressed) ==
    LET In(k) == IF k \in pressed THEN 1 ELSE 0
    IN  <<vec[1] + In("w") - In("s"), vec[2] - In("a") + In("d"), vec[3] + In("i") - In("m")>>

(* _update_movement_vector: the vector is set to [0, 0, 0], then one unit is *)
(* added or taken per key held                                              *)
update_movement_vector(vec, pressed) ==
    LET In(k) == IF k \in pressed THEN 1 ELSE 0
        zero  == <<0, 0, 0>>
    IN  <<zero[1] + In("w") - In("s"), zero[2] - In("a") + In("d"), zero[3] + In("i") - In("m")>>

(* _apply_movement: the three setter calls *)
apply_movement(vec) ==
    SetAxes(NEUTRAL_VALUE + vec[1] * SPEED_MULTIPLIER,
            NEUTRAL_VALUE + vec[2] * SPEED_MULTIPLIER,
            NEUTRAL_VALUE + vec[3] * SPEED_MULTIPLIER)

(* the if/elif chain of on_press after the movement keys *)
CommandCalls(c) ==
    IF c = "q" THEN <<DroneCall("set_yaw", 63)>>
    ELSE IF c = "e" THEN <<DroneCall("set_yaw", 191)>>
    ELSE IF c = "r" THEN <<DroneCall("calibrate", 0)>>
    ELSE IF c = "f" THEN <<DroneCall("takeoff", 0)>>
    ELSE IF c = "v" THEN <<DroneCall("land", 0)>>
    ELSE IF c = "c" THEN <<DroneCall("stop", 0)>>
    ELSE IF c = "j" THEN <<DroneCall("reset_command", 0)>>
    ELSE <<>>

PressKeys ==
    { CharKey(c) : c \in {"w", "s", "a", "d", "i", "m",
                          "q", "e", "r", "f", "v", "c", "j", "z", CTRL_C} }
    \cup {SpecialKey("up"), SpecialKey("esc")}

ReleaseKeys ==
    { CharKey(c) : c \in {"w", "s", "a", "d", "i", "m", "q", "z"} }
    \cup {SpecialKey("up"), SpecialKey("esc")}

InitTeleop ==
    /\ pc = "teleop"
    /\ drone \in DroneInitial
    /\ sent = <<>>
    /\ movement_pressed = {}
    /\ movement_vector = <<0, 0, 0>>
    /\ running = TRUE
    /\ key_event = NoKey
    /\ applied = FALSE
    /\ api_call = NoCall
    /\ PathIdle
    /\ PcapIdle

(* on_press(key) *)
TeleopOnPress ==
    /\ pc = "teleop"
    /\ \E key \in PressKeys :
        /\ key_event' = [event |-> "press", kind |-> key.kind, char |-> key.char]
        /\ IF key.kind = "char" /\ key.char = CTRL_C
           THEN /\ running' = FALSE
                /\ pc' = "teleop_ended"
                /\ sent' = <<>>
                /\ UNCHANGED <<movement_pressed, movement_vector, applied, drone>>
           ELSE IF key.kind = "special"
           THEN /\ sent' = <<>>
                /\ UNCHANGED <<pc, running, movement_pressed, movement_vector, applied, drone>>
           ELSE /\ IF IsMovementKey(key.char)
                   THEN /\ movement_pressed' = movement_pressed \cup {key.char}
                        /\ movement_vector' =
                               update_movement_vector(movement_vector, movement_pressed')
                        /\ applied' = TRUE
                        /\ sent' = apply_movement(movement_vector') \o CommandCalls(key.char)
                   ELSE /\ sent' = CommandCalls(key.char)
                        /\ UNCHANGED <<movement_pressed, movement_vector, applied>>
                /\ drone' = AfterCalls(drone, sent')
                /\ UNCHANGED <<pc, running>>
    /\ UNCHANGED exceptTeleop

(* on_release(key) *)
TeleopOnRelease ==
    /\ pc = "teleop"
    /\ \E key \in ReleaseKeys :
        /\ key_event' = [event |-> "release", kind |-> key.kind, char |-> key.char]
        /\ IF key.kind = "special" /\ key.char = "esc"
           THEN /\ running' = FALSE
                /\ pc' = "teleop_ended"
                /\ sent' = <<>>
                /\ UNCHANGED <<movement_pressed, movement_vector, applied, drone>>
           ELSE IF key.kind = "special"
           THEN /\ sent' = <<>>
                /\ UNCHANGED <<pc, running, movement_pressed, movement_vector, applied, drone>>
           ELSE /\ IF IsMovementKey(key.char) /\ key.char \in movement_pressed
                   THEN /\ movement_pressed' = movement_pressed \ {key.char}
                        /\ movement_vector' =
                               update_movement_vector(movement_vector, movement_pressed')
                        /\ applied' = TRUE
                        /\ sent' = apply_movement(movement_vector')
                   ELSE /\ sent' = <<>>
                        /\ UNCHANGED <<movement_pressed, movement_vector, applied>>
                /\ drone' = AfterCalls(drone, sent')
                /\ UNCHANGED <<pc, running>>
    /\ UNCHANGED exceptTeleop

(* the listener has ended: stop() joins the sender thread and stops the drone *)
TeleopStop ==
    /\ pc = "teleop_ended"
    /\ sent' = <<DroneCall("stop", 0)>>
    /\ drone' = AfterCalls(drone, sent')
    /\ pc' = "teleop_stopped"
    /\ UNCHANGED teleopVars
    /\ UNCHANGED exceptTeleop

NextTeleop == TeleopOnPress \/ TeleopOnRelease \/ TeleopStop

SpecTeleop == InitTeleop /\ [][NextTeleop]_vars

----------------------------------------------------------------------------
(* PathCommandSender of draw-path.py *)

(* the constructor defaults speed_multiplier = 48 and pixel_scale = 50.0 *)
PATH_SPEED_MULTIPLIER == 48

PIXEL_SCALE == 50

(* what _send reaches: self.drone is dropped when a callback is given *)
SenderOf(has_drone, has_callback) ==
    IF has_callback THEN "callback" ELSE IF has_drone THEN "drone" ELSE "none"

(* int(x) of Python for x = n / d, d > 0: towards zero *)
TruncDiv(n, d) == IF n >= 0 THEN n \div d ELSE -((-n) \div d)

(* int(base + (delta / pixel_scale) * speed_multiplier); the quotient is an *)
(* integer only when delta / 50.0 is exact in binary, so the float result  *)
(* truncates like the exact one                                             *)
IntOffset(base, delta) ==
    TruncDiv(base * PIXEL_SCALE + delta * PATH_SPEED_MULTIPLIER, PIXEL_SCALE)

(* a plausible slip: the upper bound is forgotten *)
clamp_NoUpper(value) == Max(0, value)

(* _clamp with its defaults 0 and 255 *)
clamp(value) == Max(0, Min(255, value))

(* _delta_to_command *)
delta_to_command(dx, dy, base) ==
    RCCommand(clamp(IntOffset(base.pitch, -dy)), clamp(IntOffset(base.roll, dx)),
              base.throttle)

PointInputs == {<<0, 0>>, <<1, 0>>, <<50, 25>>, <<300, 0>>, <<0, 300>>}

PointLists == UNION { [1..n -> PointInputs] : n \in 0..MaxPoints }

(* base: None (RCCommand()), a command in range, a command out of range *)
BaseInputs ==
    { RCCommand(NEUTRAL_VALUE, NEUTRAL_VALUE, NEUTRAL_VALUE),
      RCCommand(100, 200, 60),
      RCCommand(300, -20, 400) }

InitPath ==
    /\ pc = "path_call"
    /\ \E has_drone \in BOOLEAN, has_callback \in BOOLEAN :
           sender = SenderOf(has_drone, has_callback)
    /\ point_list \in PointLists
    /\ base_command \in BaseInputs
    /\ commands = <<>>
    /\ delivered = <<>>
    /\ send_step = 0
    /\ pending = RCCommand(NEUTRAL_VALUE, NEUTRAL_VALUE, NEUTRAL_VALUE)
    /\ message = NoMessage
    /\ drone \in DroneInitial
    /\ sent = <<>>
    /\ api_call = NoCall
    /\ TeleopIdle
    /\ PcapIdle

(* _send(command) *)
Send(command) ==
    /\ sent' = IF sender = "drone"
               THEN SetAxes(command.pitch, command.roll, command.throttle)
               ELSE <<>>
    /\ drone' = AfterCalls(drone, sent')
    /\ delivered' = IF sender = "none" THEN delivered ELSE Append(delivered, command)

(* follow_path up to the loop: fewer than 2 points return the empty list *)
PathStart ==
    /\ pc = "path_call"
    /\ pc' = IF Len(point_list) < 2 THEN "path_returned" ELSE "path_loop"
    /\ UNCHANGED <<droneVars, pathVars>>
    /\ UNCHANGED exceptPath

(* one iteration of `for start, end in zip(point_list, point_list[1:])` *)
PathStep ==
    /\ pc = "path_loop"
    /\ Len(commands) < Len(point_list) - 1
    /\ LET start   == point_list[Len(commands) + 1]
           end     == point_list[Len(commands) + 2]
           dx      == end[1] - start[1]
           dy      == end[2] - start[2]
           command == delta_to_command(dx, dy, base_command)
       IN  /\ commands' = Append(commands, command)
           /\ Send(command)
    /\ UNCHANGED <<pc, sender, point_list, base_command>>
    /\ UNCHANGED exceptPath

(* return to hover: _send(base_command), append it, return commands *)
PathHover ==
    /\ pc = "path_loop"
    /\ Len(commands) = Len(point_list) - 1
    /\ Send(base_command)
    /\ commands' = Append(commands, base_command)
    /\ pc' = "path_returned"
    /\ UNCHANGED <<sender, point_list, base_command>>
    /\ UNCHANGED exceptPath

NextPath == PathStart \/ PathStep \/ PathHover

SpecPath == InitPath /\ [][NextPath]_vars

----------------------------------------------------------------------------
(* PathCommandSender with a drone attached: follow_path in the caller's    *)
(* thread, _drone_loop in the background thread. Nothing in draw-path.py   *)
(* locks the drone, so the loop may run between any two setters of _send.  *)

(* the command the loop of follow_path sends next: one per point pair, then *)
(* the base command                                                         *)
NextCommand ==
    IF Len(commands) < Len(point_list) - 1
    THEN LET start == point_list[Len(commands) + 1]
             end   == point_list[Len(commands) + 2]
         IN  delta_to_command(end[1] - start[1], end[2] - start[2], base_command)
    ELSE base_command

InitThreads ==
    /\ pc = "path_call"
    /\ sender = SenderOf(TRUE, FALSE)
    /\ point_list \in PointLists
    /\ base_command \in BaseInputs
    /\ commands = <<>>
    /\ delivered = <<>>
    /\ send_step = 0
    /\ pending = RCCommand(NEUTRAL_VALUE, NEUTRAL_VALUE, NEUTRAL_VALUE)
    /\ message = NoMessage
    /\ drone \in DroneInitial
    /\ sent = <<>>
    /\ api_call = NoCall
    /\ TeleopIdle
    /\ PcapIdle

(* follow_path up to the loop *)
ThreadStart ==
    /\ pc = "path_call"
    /\ pc' = IF Len(point_list) < 2 THEN "path_returned" ELSE "path_loop"
    /\ UNCHANGED <<droneVars, pathVars, threadVars>>
    /\ UNCHANGED exceptThreads

(* the loop reaches _send(command): drone.set_pitch(command.pitch) *)
ThreadSetPitch ==
    /\ pc = "path_loop"
    /\ send_step = 0
    /\ pending' = NextCommand
    /\ commands' = IF Len(commands) < Len(point_list) - 1
                   THEN Append(commands, NextCommand) ELSE commands
    /\ sent' = <<DroneCall("set_pitch", NextCommand.pitch)>>
    /\ drone' = AfterCalls(drone, sent')
    /\ send_step' = 1
    /\ UNCHANGED <<pc, sender, point_list, base_command, delivered, message>>
    /\ UNCHANGED exceptThreads

(* drone.set_roll(command.roll) *)
ThreadSetRoll ==
    /\ pc = "path_loop"
    /\ send_step = 1
    /\ sent' = <<DroneCall("set_roll", pending.roll)>>
    /\ drone' = AfterCalls(drone, sent')
    /\ send_step' = 2
    /\ UNCHANGED <<pc, pathVars, pending, message>>
    /\ UNCHANGED exceptThreads

(* drone.set_throttle(command.throttle); _send returns; after the base     *)
(* command follow_path appends it and returns                              *)
ThreadSetThrottle ==
    /\ pc = "path_loop"
    /\ send_step = 2
    /\ sent' = <<DroneCall("set_throttle", pending.throttle)>>
    /\ drone' = AfterCalls(drone, sent')
    /\ send_step' = 0
    /\ delivered' = Append(delivered, pending)
    /\ IF Len(commands) = Len(point_list) - 1 /\ Len(delivered) = Len(commands)
       THEN /\ commands' = Append(commands, base_command)
            /\ pc' = "path_returned"
       ELSE UNCHANGED <<pc, commands>>
    /\ UNCHANGED <<sender, point_list, base_command, pending, message>>
    /\ UNCHANGED exceptThreads

(* one turn of _drone_loop: build_message and send_message read the axes   *)
(* the drone holds at that moment                                          *)
DroneLoop ==
    /\ pc \in {"path_call", "path_loop", "path_returned"}
    /\ message' = [kind |-> "message", pitch |-> drone.pitch, roll |-> drone.roll,
                   throttle |-> drone.throttle]
    /\ UNCHANGED <<pc, droneVars, pathVars, send_step, pending>>
    /\ UNCHANGED exceptThreads

(* stop(): _running = False, the loop thread is joined *)
ThreadStop ==
    /\ pc = "path_returned"
    /\ pc' = "path_stopped"
    /\ UNCHANGED <<droneVars, pathVars, threadVars>>
    /\ UNCHANGED exceptThreads

NextThreads ==
    \/ ThreadStart
    \/ ThreadSetPitch
    \/ ThreadSetRoll
    \/ ThreadSetThrottle
    \/ DroneLoop
    \/ ThreadStop

SpecThreads == InitThreads /\ [][NextThreads]_vars

----------------------------------------------------------------------------
(* The whole development: any program, from its initial state *)

Init == InitDecode \/ InitDebounce \/ InitMain \/ InitReport \/ InitApi \/ InitTeleop \/ InitPath \/ InitThreads

Next == NextDecode \/ NextDebounce \/ NextMain \/ NextReport \/ NextApi \/ NextTeleop \/ NextPath \/ NextThreads

Spec == Init /\ [][Next]_vars

----------------------------------------------------------------------------
(* Properties of the decoder (SpecDecode) *)

Range(s) == { s[i] : i \in 1..Len(s) }

HasPrefix(s, pre) == Len(s) >= Len(pre) /\ SubSeq(s, 1, Len(pre)) = pre

LowerHex == {"0","1","2","3","4","5","6","7","8","9","a","b","c","d","e","f"}

HexValue(c) == CHOOSE k \in 0..15 : HexChars[k + 1] = c

(* s is pre followed by exactly two lowercase hex digits that spell the byte b *)
IsGenericLabel(s, pre, b) ==
    /\ Len(s) = Len(pre) + 2
    /\ SubSeq(s, 1, Len(pre)) = pre
    /\ s[Len(pre) + 1] \in LowerHex
    /\ s[Len(pre) + 2] \in LowerHex
    /\ 16 * HexValue(s[Len(pre) + 1]) + HexValue(s[Len(pre) + 2]) = b

Parsed == pc \in {"parsed", "skipped", "raised", "inferred"}

Accepted == pc \in {"parsed", "inferred"}

(* C1: parse_rc_frame returns a frame exactly when the payload has 20 bytes, *)
(* byte 0 is 0x66 and byte 19 is 0x99; for every other payload it returns    *)
(* None, and it never raises.                                                *)
C1_FrameIffWellFramed ==
    Parsed =>
        /\ frame.kind \in {"RCFrame", "None"}
        /\ frame.kind = "RCFrame" <=>
             (Len(payload) = 20 /\ payload[1] = 102 /\ payload[20] = 153)

C1_Witness ==
    /\ pc = "skipped"
    /\ Len(payload) = 20
    /\ payload[1] = 102
    /\ payload[20] # 153

(* C2: the frame of a valid payload carries roll, pitch, throttle, yaw, cmd  *)
(* and headless from bytes 2..7, the given timestamp and the payload itself  *)
(* as raw; every field is a byte.                                            *)
C2_FieldsByIndex ==
    Accepted =>
        /\ frame.roll = payload[3]
        /\ frame.pitch = payload[4]
        /\ frame.throttle = payload[5]
        /\ frame.yaw = payload[6]
        /\ frame.cmd = payload[7]
        /\ frame.headless = payload[8]
        /\ frame.ts = ts
        /\ frame.raw = payload
        /\ \A v \in {frame.roll, frame.pitch, frame.throttle, frame.yaw,
                     frame.cmd, frame.headless} : v \in 0..255

C2_Witness ==
    /\ pc = "parsed"
    /\ Cardinality({payload[3], payload[4], payload[5], payload[6],
                    payload[7], payload[8]}) = 6
    /\ frame.roll = payload[3]
    /\ frame.headless = payload[8]

WithChecksum(p, b) == [p EXCEPT ![19] = b]

(* the checksum bytes tried against a payload: the extremes, the XOR of      *)
(* bytes 2..7 (the checksum of the protocol notes), its neighbour and the    *)
(* neighbour of the payload's own                                            *)
ChecksumBytes(p) ==
    LET x == Xor(Xor(Xor(p[3], p[4]), Xor(p[5], p[6])), Xor(p[7], p[8]))
    IN  {0, BYTE_MAX, x, (x + 1) % 256, (p[19] + 1) % 256}

(* C3: byte 18 never influences decoding: a 20-byte payload and the same     *)
(* payload with any other checksum byte are both accepted or both rejected,  *)
(* with the same six fields and the same labels.                             *)
C3_ChecksumIgnored ==
    (Parsed /\ Len(payload) = 20) =>
        \A b \in ChecksumBytes(payload) :
            LET g == parse_rc_frame(ts, WithChecksum(payload, b))
            IN  /\ g.kind = frame.kind
                /\ frame.kind = "RCFrame" =>
                     /\ <<g.roll, g.pitch, g.throttle, g.yaw, g.cmd, g.headless>>
                          = <<frame.roll, frame.pitch, frame.throttle, frame.yaw,
                              frame.cmd, frame.headless>>
                     /\ pc = "inferred" => infer_event(g, deadband) = events

C3_Witness ==
    /\ pc = "inferred"
    /\ payload[19] = 255
    /\ Len(events) >= 2

NeighbourBytes == {0, START_MARKER, NEUTRAL, END_MARKER, BYTE_MAX}

(* C4: every 20-byte payload yields a frame or None, never an exception, and *)
(* no other valid payload at the same timestamp decodes to the same frame.   *)
C4_TotalAndInjective ==
    (pc \in {"parsed", "skipped", "raised"} /\ Len(payload) = 20) =>
        /\ frame.kind \in {"RCFrame", "None"}
        /\ frame.kind = "RCFrame" =>
             \A i \in 1..20 : \A b \in NeighbourBytes :
                 LET q == [payload EXCEPT ![i] = b]
                     g == parse_rc_frame(ts, q)
                 IN  /\ g.kind \in {"RCFrame", "None"}
                     /\ (q # payload /\ g.kind = "RCFrame") => g # frame

C4_Witness ==
    /\ pc = "parsed"
    /\ parse_rc_frame(ts, [payload EXCEPT ![12] = 255]).kind = "RCFrame"
    /\ parse_rc_frame(ts, [payload EXCEPT ![12] = 255]) # frame

----------------------------------------------------------------------------
(* Properties of the classifier (SpecDecode) *)

NamedCommandLabels == {S_takeoff, S_emergency_stop, S_land, S_calibrate_gyro}

IsCommandLabel(l) == l \in NamedCommandLabels \/ HasPrefix(l, S_cmd_0x)

IsHeadlessLabel(l) ==
    l \in {S_headless_on, S_headless_off} \/ HasPrefix(l, S_headless_0x)

(* the positions of events that hold a label satisfying Is *)
Positions(evs, Is(_)) == { i \in 1..Len(evs) : Is(evs[i]) }

PositionsIn(evs, labels) == { i \in 1..Len(evs) : evs[i] \in labels }

(* C5: for the command byte infer_event emits nothing when it is 0x00, the   *)
(* name of the command when it is 0x01..0x04, and otherwise exactly one      *)
(* label cmd_0xNN with the byte as two lowercase hex digits; never "none".   *)
C5_CommandLabel ==
    pc = "inferred" =>
        LET at == Positions(events, IsCommandLabel)
        IN  /\ S_none \notin Range(events)
            /\ frame.cmd = 0 => at = {}
            /\ frame.cmd # 0 => at = {1}
            /\ frame.cmd = 1 => events[1] = S_takeoff
            /\ frame.cmd = 2 => events[1] = S_emergency_stop
            /\ frame.cmd = 3 => events[1] = S_land
            /\ frame.cmd = 4 => events[1] = S_calibrate_gyro
            /\ frame.cmd \in 5..255 => IsGenericLabel(events[1], S_cmd_0x, frame.cmd)

C5_Witness ==
    /\ pc = "inferred"
    /\ frame.cmd = 10
    /\ events[1] = <<"c","m","d","_","0","x","0","a">>
    /\ Len(events) >= 2

Opposite(l) ==
    CASE l = S_forward -> S_back
      [] l = S_back -> S_forward
      [] l = S_right -> S_left
      [] l = S_left -> S_right
      [] l = S_up -> S_down
      [] l = S_down -> S_up
      [] l = S_yaw_right -> S_yaw_left
      [] l = S_yaw_left -> S_yaw_right

(* the labels of events that belong to one axis *)
AxisLabels(evs, pos, neg) == { evs[i] : i \in PositionsIn(evs, {pos, neg}) }

(* one axis of the frame: nothing within the deadband, else exactly one      *)
(* label, the positive one above neutral and the negative one below          *)
AxisClassified(evs, v, db, pos, neg) ==
    LET at == PositionsIn(evs, {pos, neg})
    IN  /\ (v - 128 <= db /\ 128 - v <= db) => at = {}
        /\ v - 128 > db => (Cardinality(at) = 1 /\ AxisLabels(evs, pos, neg) = {pos})
        /\ 128 - v > db => (Cardinality(at) = 1 /\ AxisLabels(evs, pos, neg) = {neg})

(* the frame with every axis value 128 + d replaced by 128 - d *)
Mirrored(f) ==
    [f EXCEPT !.pitch = 256 - f.pitch, !.roll = 256 - f.roll,
              !.throttle = 256 - f.throttle, !.yaw = 256 - f.yaw]

(* C6: with a deadband >= 0 each axis emits no label when |v - 128| is at    *)
(* most the deadband, the positive label above and the negative label below; *)
(* the values 128 + d and 128 - d yield each other's opposite.               *)
C6_AxisLabels ==
    (pc = "inferred" /\ deadband >= 0) =>
        /\ AxisClassified(events, frame.pitch, deadband, S_forward, S_back)
        /\ AxisClassified(events, frame.roll, deadband, S_right, S_left)
        /\ AxisClassified(events, frame.throttle, deadband, S_up, S_down)
        /\ AxisClassified(events, frame.yaw, deadband, S_yaw_right, S_yaw_left)
        /\ (\A v \in {frame.pitch, frame.roll, frame.throttle, frame.yaw} : v # 0) =>
             LET mirror == infer_event(Mirrored(frame), deadband)
             IN  \A pair \in {<<S_forward, S_back>>, <<S_right, S_left>>,
                              <<S_up, S_down>>, <<S_yaw_right, S_yaw_left>>} :
                     AxisLabels(mirror, pair[1], pair[2]) =
                         { Opposite(l) : l \in AxisLabels(events, pair[1], pair[2]) }

C6_Witness ==
    /\ pc = "inferred"
    /\ deadband = 40
    /\ frame.pitch = 168
    /\ frame.roll = 87
    /\ frame.throttle = 168
    /\ frame.yaw = 87
    /\ frame.cmd = 0
    /\ frame.headless = 0
    /\ events = <<S_left, S_yaw_left>>

C6_WitnessBelow ==
    /\ pc = "inferred"
    /\ deadband = 12
    /\ frame.yaw = 115
    /\ events = <<S_yaw_left>>

(* the field a label belongs to, in the order command, pitch, roll,          *)
(* throttle, yaw, headless; 0 for a label of no field                        *)
FieldOf(l) ==
    IF IsCommandLabel(l) THEN 1
    ELSE IF l \in {S_forward, S_back} THEN 2
    ELSE IF l \in {S_right, S_left} THEN 3
    ELSE IF l \in {S_up, S_down} THEN 4
    ELSE IF l \in {S_yaw_right, S_yaw_left} THEN 5
    ELSE IF IsHeadlessLabel(l) THEN 6
    ELSE 0

(* C7: the labels of a frame come in the order command, pitch, roll,         *)
(* throttle, yaw, headless, at most one per field, so never more than six.   *)
C7_EmissionOrder ==
    pc = "inferred" =>
        /\ Len(events) <= 6
        /\ \A i \in 1..Len(events) : FieldOf(events[i]) \in 1..6
        /\ \A i, j \in 1..Len(events) :
               i < j => FieldOf(events[i]) < FieldOf(events[j])

C7_Witness ==
    /\ pc = "inferred"
    /\ Len(events) = 6
    /\ events[2] = S_back
    /\ events[3] = S_right

C7_WitnessSubset ==
    /\ pc = "inferred"
    /\ events = <<S_left, S_yaw_right, S_headless_on>>

(* C8: headless 0x03 gives headless_on, 0x02 gives headless_off, and every   *)
(* byte outside {0x00, 0x02, 0x03} exactly one label headless_0xNN with the  *)
(* byte as two lowercase hex digits; that label is the last of the list.     *)
C8_HeadlessLabel ==
    (pc = "inferred" /\ frame.headless # 0) =>
        /\ Positions(events, IsHeadlessLabel) = {Len(events)}
        /\ frame.headless = 3 => events[Len(events)] = S_headless_on
        /\ frame.headless = 2 => events[Len(events)] = S_headless_off
        /\ frame.headless \notin {2, 3} =>
             IsGenericLabel(events[Len(events)], S_headless_0x, frame.headless)

C8_Witness ==
    /\ pc = "inferred"
    /\ frame.headless = 10
    /\ Len(events) >= 3
    /\ events[Len(events)] = <<"h","e","a","d","l","e","s","s","_","0","x","0","a">>

(* C9 as claimed: every frame yields exactly one headless label, and a frame *)
(* with headless 0x00 yields headless_0x00.                                  *)
C9_AlwaysOneHeadlessLabel ==
    pc = "inferred" =>
        /\ Cardinality(Positions(events, IsHeadlessLabel)) = 1
        /\ frame.headless = 0 => S_headless_0x \o <<"0", "0">> \in Range(events)

(* C9 as amended: a frame yields exactly one headless label when its         *)
(* headless byte is not 0x00 and none when it is 0x00; headless_0x00 is      *)
(* never emitted.                                                            *)
C9_HeadlessZeroSilent ==
    pc = "inferred" =>
        /\ frame.headless # 0 => Cardinality(Positions(events, IsHeadlessLabel)) = 1
        /\ frame.headless = 0 => Positions(events, IsHeadlessLabel) = {}
        /\ S_headless_0x \o <<"0", "0">> \notin Range(events)

C9_Witness ==
    /\ pc = "inferred"
    /\ frame.headless = 0
    /\ frame.cmd = 1
    /\ events = <<S_takeoff>>

----------------------------------------------------------------------------
(* Properties of the debouncer (SpecDebounce) *)

TsOf(k) == events_over_time[k][1]

LabelOf(k) == events_over_time[k][2]

(* the earlier events of the stream with the label of event k *)
EarlierSame(k) == { j \in 1..(k - 1) : LabelOf(j) = LabelOf(k) }

SetMax(S) == CHOOSE m \in S : \A x \in S : x <= m

(* the last earlier event with the label of event k that was counted *)
LastCounted(k) == SetMax({ j \in EarlierSame(k) : counted[j] })

TimeAscending == \A i, j \in 1..Len(events_over_time) : i < j => TsOf(i) <= TsOf(j)

CountedOf(label) == { k \in 1..Len(events_over_time) : counted[k] /\ LabelOf(k) = label }

(* C10: an event is counted exactly when it is the first of its label or     *)
(* lies at least the window after the last counted event of its label (a gap *)
(* equal to the window counts); the count of a label is the number of its    *)
(* counted events, and on time-ascending input two counted events of one     *)
(* label are at least the window apart.                                      *)
C10_CountedIffFirstOrWindowElapsed ==
    pc \in {"loop", "returned"} =>
        /\ Len(counted) = Len(events_over_time)
        /\ \A k \in 1..Len(events_over_time) :
               counted[k] <=>
                   \/ EarlierSame(k) = {}
                   \/ TsOf(k) - TsOf(LastCounted(k)) >= debounce_s
        /\ \A label \in DebounceLabels :
               DictGetOr(counts, label, 0) = Cardinality(CountedOf(label))
        /\ TimeAscending =>
               \A i, j \in 1..Len(events_over_time) :
                   (i < j /\ counted[i] /\ counted[j] /\ LabelOf(i) = LabelOf(j))
                       => TsOf(j) - TsOf(i) >= debounce_s
        /\ (debounce_s = 6 /\ events_over_time = <<<<0, S_takeoff>>, <<3, S_takeoff>>>>)
               => counts = (S_takeoff :> 1)
        /\ (debounce_s = 6 /\ events_over_time = <<<<0, S_takeoff>>, <<7, S_takeoff>>>>)
               => counts = (S_takeoff :> 2)

C10_Witness ==
    /\ pc = "returned"
    /\ debounce_s = 6
    /\ events_over_time =
           <<<<0, S_takeoff>>, <<2, S_land>>, <<5, S_takeoff>>, <<6, S_takeoff>>>>
    /\ counted = <<TRUE, TRUE, FALSE, TRUE>>
    /\ counts[S_takeoff] = 2

(* the event the loop consumed in this step *)
Consumed == events_over_time'[Len(events_over_time')]

(* C11: an event dropped as a continuation leaves counts and last_seen as    *)
(* they were; last_seen of a label changes only in the step that adds        *)
(* exactly 1 to the count of that label, and then holds the event timestamp. *)
C11_DroppedEventChangesNothing ==
    [][ (pc = "loop" /\ Len(events_over_time') = Len(events_over_time) + 1) =>
          /\ ~counted'[Len(counted')] => (counts' = counts /\ last_seen' = last_seen)
          /\ \A label \in DebounceLabels :
                 DictGet(last_seen', label) # DictGet(last_seen, label) =>
                     /\ label = Consumed[2]
                     /\ last_seen'[label] = Consumed[1]
                     /\ DictGetOr(counts', label, 0) = DictGetOr(counts, label, 0) + 1
          /\ \A label \in DebounceLabels :
                 DictGetOr(counts', label, 0) # DictGetOr(counts, label, 0) =>
                     /\ label = Consumed[2]
                     /\ DictGetOr(counts', label, 0) = DictGetOr(counts, label, 0) + 1
                     /\ last_seen'[label] = Consumed[1]
          /\ DOMAIN counts' = DOMAIN last_seen'
      ]_vars

C11_Witness ==
    /\ pc = "loop"
    /\ debounce_s = 6
    /\ events_over_time = <<<<0, S_takeoff>>, <<1, S_land>>, <<4, S_takeoff>>>>
    /\ counted = <<TRUE, TRUE, FALSE>>
    /\ last_seen = (S_takeoff :> 0) @@ (S_land :> 1)
    /\ counts = (S_takeoff :> 1) @@ (S_land :> 1)

(* the events of one label, in stream order *)
SubStream(evs, label) ==
    LET Keep(e) == e[2] = label
    IN  SelectSeq(evs, Keep)

(* C12: the count of a label is the count debounce_and_count gives on the    *)
(* sub-stream of that label alone: events of other labels never change it.  *)
C12_LabelsIndependent ==
    pc = "returned" =>
        /\ \A label \in DebounceLabels :
               DictGetOr(counts, label, 0) =
                   DictGetOr(debounce_and_count(SubStream(events_over_time, label),
                                                debounce_s), label, 0)
        /\ (debounce_s = 6 /\ events_over_time =
                <<<<0, S_takeoff>>, <<1, S_land>>, <<2, S_takeoff>>>>)
               => counts = (S_takeoff :> 1) @@ (S_land :> 1)

C12_Witness ==
    /\ pc = "returned"
    /\ debounce_s = 6
    /\ events_over_time = <<<<0, S_takeoff>>, <<1, S_land>>, <<2, S_takeoff>>>>
    /\ counts = (S_takeoff :> 1) @@ (S_land :> 1)

(* the latest earlier event with the label of event k *)
Preceding(k) == SetMax(EarlierSame(k))

(* the stream is one uninterrupted time-ascending run of a single label      *)
(* whose consecutive gaps are all smaller than the window                    *)
ContinuousRun ==
    /\ events_over_time # <<>>
    /\ \A k \in 1..Len(events_over_time) : LabelOf(k) = LabelOf(1)
    /\ \A k \in 2..Len(events_over_time) :
           TsOf(k) >= TsOf(k - 1) /\ TsOf(k) - TsOf(k - 1) < debounce_s

(* C13 as claimed: an event within the window of the preceding event of its  *)
(* label is not counted again, so a continuous run yields a count of 1.      *)
C13_ContinuousRunCountsOnce ==
    pc \in {"loop", "returned"} =>
        /\ \A k \in 1..Len(events_over_time) :
               (/\ EarlierSame(k) # {}
                /\ TsOf(k) >= TsOf(Preceding(k))
                /\ TsOf(k) - TsOf(Preceding(k)) < debounce_s) => ~counted[k]
        /\ ContinuousRun => counts = (LabelOf(1) :> 1)

----------------------------------------------------------------------------
(* Properties of the report (SpecReport) *)

(* the label a count line shows: its characters up to the first space *)
LineLabel(line) ==
    LET cs == line.chars
        i  == CHOOSE i \in 1..Len(cs) : cs[i] = " " /\ \A j \in 1..(i - 1) : cs[j] # " "
    IN  SubSeq(cs, 1, i - 1)

RECURSIVE DecValue(_)
DecValue(s) ==
    IF s = <<>> THEN 0
    ELSE 10 * DecValue(SubSeq(s, 1, Len(s) - 1))
         + (CHOOSE d \in 0..9 : Digits[d + 1] = s[Len(s)])

(* the count a count line shows: the decimal number after its last x *)
LineCount(line) ==
    LET cs == line.chars
        i  == CHOOSE i \in 1..Len(cs) : cs[i] = "x" /\ \A j \in (i + 1)..Len(cs) : cs[j] # "x"
    IN  DecValue(SubSeq(cs, i + 1, Len(cs)))

(* the fixed preferred list, as the specification states it *)
PreferredList ==
    <<S_takeoff, S_land, S_emergency_stop, S_calibrate_gyro, S_forward, S_back,
      S_left, S_right, S_up, S_down, S_yaw_left, S_yaw_right, S_headless_on,
      S_headless_off>>

IsPreferred(label) == \E i \in 1..Len(PreferredList) : PreferredList[i] = label

PreferredPos(label) == CHOOSE i \in 1..Len(PreferredList) : PreferredList[i] = label

(* line i may stand before line j *)
InReportOrder(a, b) ==
    IF IsPreferred(a) /\ IsPreferred(b) THEN PreferredPos(a) < PreferredPos(b)
    ELSE IF IsPreferred(a) THEN TRUE
    ELSE ~IsPreferred(b) /\ StrLess(a, b)

(* lines is a listing of table c: every label of c once, with its count, *)
(* preferred labels first in list order, the rest ascending              *)
IsOrderedListing(lines, c) ==
    /\ \A i \in 1..Len(lines) : lines[i].kind = "count"
    /\ Len(lines) = Cardinality(DOMAIN c)
    /\ { LineLabel(lines[i]) : i \in 1..Len(lines) } = DOMAIN c
    /\ \A i \in 1..Len(lines) : LineCount(lines[i]) = c[LineLabel(lines[i])]
    /\ \A i, j \in 1..Len(lines) :
           i < j => InReportOrder(LineLabel(lines[i]), LineLabel(lines[j]))

(* C14: for every count table the report lists the preferred labels present *)
(* in the table in the fixed order, then the remaining labels in ascending  *)
(* lexicographic order; every label of the table appears exactly once with  *)
(* its count and no label absent from the table appears                     *)
C14_ReportOrder == pc = "reported" => IsOrderedListing(out, counts)

(* a table with preferred and generic labels, reported *)
C14_Witness ==
    /\ pc = "reported"
    /\ DOMAIN counts = ReportLabels \ {S_land}
    /\ counts[S_takeoff] = MaxCount
    /\ Len(out) = Cardinality(ReportLabels) - 1

----------------------------------------------------------------------------
(* Properties of main (SpecMain) *)

(* the labels of the count lines printed, in the order printed *)
ListedLabels ==
    LET ls == SelectSeq(out, LAMBDA l : l.kind = "count")
    IN  [i \in 1..Len(ls) |-> LineLabel(ls[i])]

Classified == pc \in {"m_classified", "m_debounced", "m_exit"}

Debounced == pc \in {"m_debounced", "m_exit"}

Reported == pc = "m_exit" /\ exit_code = 0

(* the example payload, byte by byte *)
C15_Payload == <<102, 0, 128, 128, 128, 128, 1, 2, 0, 0, 0, 0, 0, 0, 0, 0, 0, 0, 0, 153>>

C15_OnlyExample == pulled = <<<<0, C15_Payload>>>> /\ pc # "m_read" /\ args.deadband = 12

(* C15: the example payload at ts 0 decodes to axes 128, cmd 1, headless 2; *)
(* with deadband 12 its events are takeoff then headless_off, the table is  *)
(* {takeoff: 1, headless_off: 1} and the report lists takeoff first; and    *)
(* for any capture with exactly one valid frame the table holds exactly the *)
(* labels infer_event emits for it, each with count 1                       *)
C15_SingleFrameEndToEnd ==
    /\ C15_OnlyExample =>
        /\ Len(frames) = 1
        /\ frames[1].ts = 0
        /\ <<frames[1].roll, frames[1].pitch, frames[1].throttle, frames[1].yaw>>
              = <<128, 128, 128, 128>>
        /\ frames[1].cmd = 1 /\ frames[1].headless = 2
        /\ infer_event(frames[1], 12) = <<S_takeoff, S_headless_off>>
        /\ Classified => event_stream = <<<<0, S_takeoff>>, <<0, S_headless_off>>>>
        /\ Debounced => counts = [k \in {S_takeoff, S_headless_off} |-> 1]
        /\ Reported => ListedLabels = <<S_takeoff, S_headless_off>>
    /\ (Debounced /\ Len(frames) = 1) =>
        /\ DOMAIN counts = Range(infer_event(frames[1], args.deadband))
        /\ \A k \in DOMAIN counts : counts[k] = 1

(* the example capture, reported *)
C15_Witness == C15_OnlyExample /\ Reported /\ Len(ListedLabels) = 2

(* a payload parse_rc_frame turns into a frame: 20 bytes, 0x66 first, 0x99 last *)
WellFramed(p) == Len(p) = 20 /\ p[1] = 102 /\ p[20] = 153

(* the (ts, payload) pairs of the capture read so far that are well framed *)
ValidPulled == SelectSeq(pulled, LAMBDA tp : WellFramed(tp[2]))

(* a step of the decode loop that read a malformed payload *)
ReadMalformed ==
    /\ Len(pulled') = Len(pulled) + 1
    /\ ~WellFramed(pulled'[Len(pulled')][2])

C16_LoopInvariant ==
    /\ decoded = Len(frames)
    /\ Len(frames) = Len(ValidPulled)
    /\ \A i \in 1..Len(frames) :
           frames[i].ts = ValidPulled[i][1] /\ frames[i].raw = ValidPulled[i][2]
    /\ args.max > 0 => Len(frames) <= args.max
    /\ (args.max > 0 /\ Len(frames) = args.max) => pc # "m_read"

(* C16: in the decode loop a malformed payload changes neither frames nor  *)
(* decoded, prints nothing and leaves the loop running; after every        *)
(* iteration decoded = len(frames) and frames is the valid payloads read   *)
(* so far in input order; with --max N > 0 the loop stops as soon as N     *)
(* frames are collected, so len(frames) <= N                                *)
C16_MalformedSkipped ==
    /\ []C16_LoopInvariant
    /\ [][ReadMalformed => (frames' = frames /\ decoded' = decoded /\ out' = out
                            /\ pc = "m_read" /\ pc' = "m_read")]_vars

(* malformed payloads between valid ones, stopped by --max 2 at the third read *)
C16_Witness ==
    /\ args.max = 2
    /\ Len(pulled) = 3
    /\ ~WellFramed(pulled[2][2])
    /\ Len(frames) = 2
    /\ pc = "m_decoded"

Abs(x) == IF x < 0 THEN -x ELSE x

(* a frame with cmd 0x00, every axis within the deadband and headless 0x00 *)
Quiet(f, db) ==
    /\ f.cmd = 0
    /\ f.headless = 0
    /\ \A a \in {f.roll, f.pitch, f.throttle, f.yaw} : Abs(a - 128) <= db

CountLines == SelectSeq(out, LAMBDA l : l.kind = "count")

HeaderPrinted == \E i \in 1..Len(out) : out[i] = [kind |-> "decoded_frames", n |-> Len(frames)]

NoFramesPrinted == \E i \in 1..Len(out) : out[i] = TextLine("No RC frames found.")

(* C17: main returns 2, printing "No RC frames found." and no counts, if and *)
(* only if no payload decoded to a frame; otherwise it returns 0, also when  *)
(* the table is empty because no frame emitted a label (every frame quiet):  *)
(* then the summary header is printed with no label lines                    *)
C17_ExitCodes ==
    /\ pc # "m_exit" => exit_code = -1
    /\ pc = "m_exit" =>
        /\ exit_code \in {0, 2}
        /\ exit_code = 2 <=> Len(ValidPulled) = 0
        /\ exit_code = 2 => (NoFramesPrinted /\ CountLines = <<>> /\ ~HeaderPrinted)
        /\ exit_code = 0 => (HeaderPrinted /\ ~NoFramesPrinted
                             /\ Len(CountLines) = Cardinality(DOMAIN counts))
    /\ (Debounced /\ \A i \in 1..Len(frames) : Quiet(frames[i], args.deadband)) =>
           counts = <<>>

(* two frames decoded, neither emitted a label: header only, exit code 0 *)
C17_Witness ==
    /\ Reported
    /\ Len(frames) = 2
    /\ counts = <<>>
    /\ CountLines = <<>>
    /\ HeaderPrinted

----------------------------------------------------------------------------
(* Properties of DroneTeleopAPI (SpecApi) *)

(* speed limited to 0..123 *)
LimitedSpeed(speed) == IF speed < 0 THEN 0 ELSE IF speed > 123 THEN 123 ELSE speed

(* the axis a direction moves and the sign it moves it with *)
AxisOf(direction) ==
    IF direction \in {"forward", "back"} THEN "pitch"
    ELSE IF direction \in {"right", "left"} THEN "roll"
    ELSE "throttle"

SignOf(direction) == IF direction \in {"forward", "right", "up"} THEN 1 ELSE -1

(* what the three axes must be while the move `call` is held *)
ExpectedAxis(call, axis) ==
    IF AxisOf(call.direction) = axis
    THEN 127 + SignOf(call.direction) * LimitedSpeed(call.speed)
    ELSE 127

AxisValuesSent == { sent[i].v : i \in { j \in 1..Len(sent) : sent[j].op # "stop" } }

(* C18: move with a valid direction sets the axis of that direction to 127   *)
(* plus or minus the speed limited to 0..123 and the other two axes to 127;  *)
(* every value passed to the drone is within 4..250 whatever the speed; when *)
(* move returns the three axes have been reset to 127, so between calls,    *)
(* once a move has returned, the axes are at 127                             *)
C18_MoveOneAxisThenReset ==
    /\ pc = "api_holding" =>
        /\ api_call.direction \in {"forward", "back", "left", "right", "up", "down"}
        /\ drone.pitch = ExpectedAxis(api_call, "pitch")
        /\ drone.roll = ExpectedAxis(api_call, "roll")
        /\ drone.throttle = ExpectedAxis(api_call, "throttle")
        /\ [i \in 1..Len(sent) |-> sent[i].op] = <<"set_pitch", "set_roll", "set_throttle">>
        /\ <<sent[1].v, sent[2].v, sent[3].v>> = <<drone.pitch, drone.roll, drone.throttle>>
    /\ pc \in {"api_idle", "api_holding", "api_stopped"} =>
           \A v \in AxisValuesSent : 4 <= v /\ v <= 250
    /\ (pc = "api_idle" /\ api_call.outcome = "returned") =>
           [i \in 1..Len(sent) |-> <<sent[i].op, sent[i].v>>]
               = <<<<"set_pitch", 127>>, <<"set_roll", 127>>, <<"set_throttle", 127>>>>
    /\ (pc = "api_idle" /\ api_call.moved) =>
           <<drone.pitch, drone.roll, drone.throttle>> = <<127, 127, 127>>

(* a second move, down at speed 300, held at throttle 4 *)
C18_Witness ==
    /\ pc = "api_holding"
    /\ api_call.moved
    /\ api_call.direction = "down"
    /\ api_call.speed = 300
    /\ drone.throttle = 4

----------------------------------------------------------------------------
(* Properties of TeleopSession (SpecTeleop) *)

Held(k) == IF k \in movement_pressed THEN 1 ELSE 0

(* the vector the keys held stand for: w/s forward and back, d/a right and *)
(* left, i/m up and down                                                   *)
VectorOfKeys == <<Held("w") - Held("s"), Held("d") - Held("a"), Held("i") - Held("m")>>

AxesSent == <<drone.pitch, drone.roll, drone.throttle>>

C19_VectorInvariant ==
    /\ movement_vector = VectorOfKeys
    /\ \A i \in 1..3 : movement_vector[i] \in {-1, 0, 1}
    /\ applied =>
        /\ AxesSent = <<127 + 48 * movement_vector[1], 127 + 48 * movement_vector[2],
                        127 + 48 * movement_vector[3]>>
        /\ \A i \in 1..3 : AxesSent[i] \in {79, 127, 175}
    /\ (applied /\ movement_pressed = {}) => AxesSent = <<127, 127, 127>>

(* the step handles a press of a movement key already held *)
RepeatedPress ==
    /\ pc = "teleop"
    /\ key_event'.event = "press"
    /\ key_event'.kind = "char"
    /\ key_event'.char \in movement_pressed

(* the step handles a release of a key that is not held *)
ReleaseNotHeld ==
    /\ pc = "teleop"
    /\ key_event'.event = "release"
    /\ key_event'.kind = "char"
    /\ key_event'.char \notin movement_pressed

(* C19: after any key events the movement vector is the one the held keys  *)
(* stand for, each component in {-1, 0, 1}, opposing keys cancelling; the   *)
(* axes last sent by a movement-key event are 127 + 48 * component, each in *)
(* {79, 127, 175}; a repeated press of a held key and a release of a key    *)
(* not held change nothing; with no movement key held the axes last sent    *)
(* are 127, 127, 127                                                        *)
C19_MovementVector ==
    /\ []C19_VectorInvariant
    /\ [][(RepeatedPress \/ ReleaseNotHeld) =>
              /\ movement_pressed' = movement_pressed
              /\ movement_vector' = movement_vector
              /\ drone' = drone
              /\ running' = running]_vars
    /\ [][ReleaseNotHeld => sent' = <<>>]_vars

(* w and s held together cancel while d steers right *)
C19_Witness ==
    /\ movement_pressed = {"w", "s", "d"}
    /\ movement_vector = <<0, 1, 0>>
    /\ AxesSent = <<127, 175, 127>>
    /\ key_event = [event |-> "release", kind |-> "char", char |-> "a"]

(* every movement key released again, from a drone that started at 128 *)
C19_WitnessReleased ==
    /\ applied
    /\ movement_pressed = {}
    /\ key_event = [event |-> "release", kind |-> "char", char |-> "w"]
    /\ AxesSent = <<127, 127, 127>>
    /\ drone.yaw = 128

----------------------------------------------------------------------------
(* Properties of PathCommandSender (SpecPath) *)

InByteRange(v) == 0 <= v /\ v <= 255

(* C20 as claimed: follow_path returns the empty list and sends nothing for *)
(* fewer than 2 points; for n >= 2 points it sends and returns exactly n    *)
(* commands in order, the last being the base command; every command has    *)
(* the throttle of the base and pitch and roll within 0..255                *)
C20_FollowPath ==
    pc = "path_returned" =>
        IF Len(point_list) < 2
        THEN commands = <<>> /\ delivered = <<>> /\ sent = <<>>
        ELSE /\ Len(commands) = Len(point_list)
             /\ delivered = commands
             /\ commands[Len(commands)] = base_command
             /\ \A i \in 1..Len(commands) :
                    /\ commands[i].throttle = base_command.throttle
                    /\ InByteRange(commands[i].pitch)
                    /\ InByteRange(commands[i].roll)

----------------------------------------------------------------------------
(* Invariants of the debounce loop (SpecDebounce) *)

LabelsSeen == { LabelOf(k) : k \in 1..Len(events_over_time) }

Occurrences(label) == Cardinality({ k \in 1..Len(events_over_time) : LabelOf(k) = label })

RECURSIVE SumOver(_, _)
SumOver(d, keys) ==
    IF keys = {} THEN 0
    ELSE LET k == CHOOSE x \in keys : TRUE
         IN  d[k] + SumOver(d, keys \ {k})

C21_TableInvariant ==
    pc = "loop" =>
        /\ DOMAIN counts = DOMAIN last_seen
        /\ DOMAIN counts = LabelsSeen
        /\ \A k \in DOMAIN counts : 1 <= counts[k] /\ counts[k] <= Occurrences(k)
        /\ SumOver(counts, DOMAIN counts) <= Len(events_over_time)

(* C21: after any prefix of the event stream the keys of counts are the keys *)
(* of last_seen and the labels seen so far; every count is at least 1 and   *)
(* at most the occurrences of its label; the counts sum to at most the      *)
(* number of events processed; and no count ever decreases                  *)
C21_CountsInvariant ==
    /\ []C21_TableInvariant
    /\ [][pc = "loop" =>
             \A k \in DOMAIN counts : k \in DOMAIN counts' /\ counts'[k] >= counts[k]]_vars

(* both labels seen, one of them dropped once: a count below its occurrences *)
C21_Witness ==
    /\ pc = "loop"
    /\ LabelsSeen = DebounceLabels
    /\ counts[S_takeoff] = 2
    /\ Occurrences(S_takeoff) = 3
    /\ counts[S_land] = 1

IsDistinct(s) == \A i, j \in 1..Len(s) : i # j => s[i] # s[j]

(* the table main would hold had it decoded only the first n frames *)
CountsAfter(n) ==
    debounce_and_count(EventStream(SubSeq(frames, 1, n), args.deadband), args.debounce)

(* the labels of every event of the stream come from a frame with its timestamp *)
EventsCarryFrameTs ==
    \A k \in 1..Len(event_stream) :
        \E i \in 1..Len(frames) :
            /\ event_stream[k][1] = frames[i].ts
            /\ event_stream[k][2] \in Range(infer_event(frames[i], args.deadband))

(* C22: the labels infer_event returns for one frame are pairwise distinct; *)
(* in main's event stream every label carries its frame's timestamp; one    *)
(* frame raises the count of any label by at most 1 and the final count of  *)
(* every label is at most the number of decoded frames                      *)
C22_OnePerFrame ==
    /\ \A i \in 1..Len(frames) : IsDistinct(infer_event(frames[i], args.deadband))
    /\ Classified => EventsCarryFrameTs
    /\ pc = "m_debounced" =>
        /\ counts = CountsAfter(Len(frames))
        /\ \A n \in 1..Len(frames) :
               \A label \in DOMAIN CountsAfter(n) :
                   CountsAfter(n)[label] <= DictGetOr(CountsAfter(n - 1), label, 0) + 1
        /\ \A label \in DOMAIN counts : counts[label] <= decoded

(* no debouncing (window 0) and three frames with the same six labels: every *)
(* count reaches the number of frames                                       *)
C22_Witness ==
    /\ pc = "m_debounced"
    /\ args.debounce = 0
    /\ Len(frames) = 3
    /\ Cardinality(DOMAIN counts) = 6
    /\ \A label \in DOMAIN counts : counts[label] = 3


----------------------------------------------------------------------------
(* C23 *)

Triple(c) == <<c.pitch, c.roll, c.throttle>>

(* the commands _send has been called with so far, the one in progress     *)
(* included                                                                *)
CommandsPassed == Range(delivered) \cup (IF send_step > 0 THEN {pending} ELSE {})

WholeTriples == { Triple(c) : c \in CommandsPassed } \cup { Triple(d) : d \in DroneInitial }

(* C23 as claimed: every message _drone_loop builds carries the (pitch,    *)
(* roll, throttle) of exactly one command passed to _send, or the initial  *)
(* state, never a mix of two, under any interleaving of _drone_loop with   *)
(* the three setters of _send. The code refutes it: _send holds no lock    *)
(* while it calls the setters, so a message built after set_pitch and      *)
(* before set_roll carries the new pitch with the previous roll.           *)
C23_NoTornUpdate ==
    message.kind = "message" => Triple(message) \in WholeTriples

============================================================================
